---- MODULE Spec2Model ----
(***************************************************************************)
(* A model of file_timestamp_changer.py: the Timestamp Engine              *)
(* (get_file_timestamps, change_file_timestamp), the date parser           *)
(* (parse_date_string) and the Command Front-End (main, interactive_mode). *)
(*                                                                         *)
(* Text is modelled as a sequence of one-character strings, so that        *)
(* strip(), lower(), startswith() and strptime() work on characters.       *)
(* Python's None is the empty tuple and a present value v is <<v>>.        *)
(***************************************************************************)
EXTENDS Integers, Sequences, FiniteSets, TLC

VARIABLES
    pc,                 \* position of the single thread of control
    mode,               \* "none", "flag" or "interactive" (len(sys.argv) == 1)
    args,               \* argparse namespace of flag mode
    target_file,        \* file_path of the request
    date_string,        \* text handed to parse_date_string
    new_date,           \* None or <<datetime>>
    source_file,        \* None or <<path>>
    change_creation, change_access, change_modified,
    timestamp_types,    \* the list printed in the summary / success message
    confirm,            \* answer to "Confirm this operation?"
    success,            \* result of change_file_timestamp
    out,                \* the last message printed
    exit_code,          \* -1 while running, else the process exit status
    existing_times,     \* Engine local: the target's triple read in step 1
    source_times,       \* Engine local: the source's triple
    new_times,          \* Engine locals creation_time, access_time, modified_time
    handles,            \* OS handles this process holds open
    fs,                 \* the file system: path -> (creation, access, modified)
    called,             \* change_file_timestamp was invoked in this operation
    opened,             \* handles CreateFile returned in this operation
    pre_times,          \* the target's triple when change_file_timestamp was called
    env_wrote,          \* fields another process wrote since the Engine's read
    ops                 \* operations started (iterations of interactive_mode)

vars == <<pc, mode, args, target_file, date_string, new_date, source_file,
          change_creation, change_access, change_modified, timestamp_types,
          confirm, success, out, exit_code, existing_times, source_times,
          new_times, handles, fs, called, opened, pre_times, env_wrote, ops>>

----------------------------------------------------------------------------
(* Bounds of the model. *)

\* iterations of interactive_mode a run may start
MaxOps == 2
\* fields another process may write between two reads of the Engine (SpecRace)
MaxEnvWrites == 1

----------------------------------------------------------------------------
(* Python values. *)

None == <<>>
Some(v) == <<v>>
Get(o) == o[1]

\* truth value of an Optional[str]: None and "" are false
TruthyStr(o) == o # None /\ Get(o) # <<>>

\* truth value of an Optional[datetime]: every datetime is true
TruthyDate(o) == o # None

DigitChars == {"0", "1", "2", "3", "4", "5", "6", "7", "8", "9"}

DigitVal(c) ==
    CASE c = "0" -> 0 [] c = "1" -> 1 [] c = "2" -> 2 [] c = "3" -> 3
      [] c = "4" -> 4 [] c = "5" -> 5 [] c = "6" -> 6 [] c = "7" -> 7
      [] c = "8" -> 8 [] c = "9" -> 9 [] OTHER -> 0

\* int() of a matched group; the leading blank of the " [1-9]" day form counts 0
RECURSIVE NumVal(_)
NumVal(t) ==
    IF t = <<>> THEN 0
    ELSE NumVal(SubSeq(t, 1, Len(t) - 1)) * 10 + DigitVal(t[Len(t)])

\* str.strip(): leading and trailing blanks removed
RECURSIVE LStrip(_)
LStrip(s) == IF s # <<>> /\ Head(s) = " " THEN LStrip(Tail(s)) ELSE s

RECURSIVE RStrip(_)
RStrip(s) ==
    IF s # <<>> /\ s[Len(s)] = " " THEN RStrip(SubSeq(s, 1, Len(s) - 1)) ELSE s

Strip(s) == RStrip(LStrip(s))

\* str.lower() on the letters the answers use
LowerChar(c) == CASE c = "Y" -> "y" [] c = "N" -> "n" [] c = "E" -> "e"
                  [] c = "S" -> "s" [] c = "O" -> "o" [] OTHER -> c

Lower(s) == [i \in 1..Len(s) |-> LowerChar(s[i])]

\* str.startswith('y')
StartsWithY(s) == s # <<>> /\ s[1] = "y"

----------------------------------------------------------------------------
(* datetime.strptime, as Lib/_strptime.py computes it for the directives    *)
(* the nine formats use.                                                    *)

\* the regular expression of each directive, on a candidate group t
MatchesDirective(d, t) ==
    LET n == Len(t)
        dig(i) == t[i] \in DigitChars
        in(i, S) == t[i] \in S
    IN  CASE d = "%Y" -> n = 4 /\ \A i \in 1..4 : dig(i)
          [] d = "%m" -> \/ n = 2 /\ in(1, {"1"}) /\ in(2, {"0", "1", "2"})
                         \/ n = 2 /\ in(1, {"0"}) /\ in(2, DigitChars \ {"0"})
                         \/ n = 1 /\ in(1, DigitChars \ {"0"})
          [] d = "%d" -> \/ n = 2 /\ in(1, {"3"}) /\ in(2, {"0", "1"})
                         \/ n = 2 /\ in(1, {"1", "2"}) /\ dig(2)
                         \/ n = 2 /\ in(1, {"0"}) /\ in(2, DigitChars \ {"0"})
                         \/ n = 1 /\ in(1, DigitChars \ {"0"})
                         \/ n = 2 /\ in(1, {" "}) /\ in(2, DigitChars \ {"0"})
          [] d = "%H" -> \/ n = 2 /\ in(1, {"2"}) /\ in(2, {"0", "1", "2", "3"})
                         \/ n = 2 /\ in(1, {"0", "1"}) /\ dig(2)
                         \/ n = 1 /\ dig(1)
          [] d = "%M" -> \/ n = 2 /\ in(1, {"0", "1", "2", "3", "4", "5"}) /\ dig(2)
                         \/ n = 1 /\ dig(1)
          [] d = "%S" -> \/ n = 2 /\ in(1, {"6"}) /\ in(2, {"0", "1"})
                         \/ n = 2 /\ in(1, {"0", "1", "2", "3", "4", "5"}) /\ dig(2)
                         \/ n = 1 /\ dig(1)
          [] OTHER -> FALSE

Directives == {"%Y", "%m", "%d", "%H", "%M", "%S"}

\* group lengths in the order the alternatives of the directive are tried
GroupLens(d) == IF d = "%Y" THEN <<4>> ELSE <<2, 1>>

NoMatch == [ok |-> FALSE, vals |-> <<>>]

\* the default fields of a datetime built by strptime: 1900-01-01 00:00:00
DefaultFields == [Y |-> 1900, m |-> 1, d |-> 1, H |-> 0, M |-> 0, S |-> 0]

FieldOf(d) == CASE d = "%Y" -> "Y" [] d = "%m" -> "m" [] d = "%d" -> "d"
                [] d = "%H" -> "H" [] d = "%M" -> "M" [] d = "%S" -> "S"

\* format_regex.match(data_string) with the whole string consumed: fmt is the
\* format as a sequence of directives and literal characters; a blank of the
\* format stands for \s+.  Returns the groups found.
RECURSIVE RegexMatch(_, _, _)
RegexMatch(fmt, s, acc) ==
    IF fmt = <<>> THEN
        IF s = <<>> THEN [ok |-> TRUE, vals |-> acc] ELSE NoMatch
    ELSE
        LET d == Head(fmt) IN
        IF d \in Directives THEN
            LET try(k) ==
                    IF Len(s) >= k /\ MatchesDirective(d, SubSeq(s, 1, k))
                    THEN RegexMatch(Tail(fmt), SubSeq(s, k + 1, Len(s)),
                             [acc EXCEPT ![FieldOf(d)] = NumVal(SubSeq(s, 1, k))])
                    ELSE NoMatch
                lens == GroupLens(d)
                first == try(lens[1])
            IN  IF first.ok THEN first
                ELSE IF Len(lens) > 1 THEN try(lens[2]) ELSE NoMatch
        ELSE IF d = " " THEN
            IF s # <<>> /\ Head(s) = " "
            THEN RegexMatch(Tail(fmt), LStrip(s), acc)
            ELSE NoMatch
        ELSE
            IF s # <<>> /\ Head(s) = d
            THEN RegexMatch(Tail(fmt), Tail(s), acc)
            ELSE NoMatch

IsLeap(y) == (y % 4 = 0 /\ y % 100 # 0) \/ y % 400 = 0

DaysInMonth(y, m) ==
    CASE m \in {1, 3, 5, 7, 8, 10, 12} -> 31
      [] m \in {4, 6, 9, 11} -> 30
      [] OTHER -> IF IsLeap(y) THEN 29 ELSE 28

\* the datetime constructor's range checks (ValueError otherwise)
ValidDateTime(f) ==
    /\ f.Y >= 1
    /\ f.m \in 1..12
    /\ f.d >= 1 /\ f.d <= DaysInMonth(f.Y, f.m)
    /\ f.H \in 0..23 /\ f.M \in 0..59 /\ f.S \in 0..59

\* datetime.datetime.strptime(date_string, fmt): None stands for ValueError
StrpTime(s, fmt) ==
    LET r == RegexMatch(fmt, s, DefaultFields)
    IN  IF r.ok /\ ValidDateTime(r.vals) THEN Some(r.vals) ELSE None

----------------------------------------------------------------------------
(* parse_date_string *)

FmtYmd == <<"%Y", "-", "%m", "-", "%d">>
FmtDmy == <<"%d", "/", "%m", "/", "%Y">>
FmtMdy == <<"%m", "/", "%d", "/", "%Y">>
FmtHMS == <<" ", "%H", ":", "%M", ":", "%S">>
FmtHM  == <<" ", "%H", ":", "%M">>

\* a plausible slip: the month/day formats listed before the day/month ones
formats_mdy_first ==
    << FmtYmd \o FmtHMS, FmtYmd \o FmtHM, FmtYmd,
       FmtMdy \o FmtHMS, FmtMdy \o FmtHM, FmtMdy,
       FmtDmy \o FmtHMS, FmtDmy \o FmtHM, FmtDmy >>

formats ==
    << FmtYmd \o FmtHMS, FmtYmd \o FmtHM, FmtYmd,
       FmtDmy \o FmtHMS, FmtDmy \o FmtHM, FmtDmy,
       FmtMdy \o FmtHMS, FmtMdy \o FmtHM, FmtMdy >>

\* the for loop over formats: the first format that does not raise ValueError
RECURSIVE TryFormats(_, _)
TryFormats(s, i) ==
    IF i > Len(formats) THEN None
    ELSE LET r == StrpTime(s, formats[i])
         IN  IF r # None THEN r ELSE TryFormats(s, i + 1)

parse_date_string(s) == TryFormats(s, 1)

----------------------------------------------------------------------------
(* Instants.  A file time is a count of seconds; pywintypes.Time turns a   *)
(* datetime into one.                                                       *)

\* days from 0001-01-01 to the first day of year y (datetime's _days_before_year)
DaysBeforeYear(y) ==
    (y - 1) * 365 + ((y - 1) \div 4) - ((y - 1) \div 100) + ((y - 1) \div 400)

RECURSIVE DaysBeforeMonth(_, _)
DaysBeforeMonth(y, m) ==
    IF m = 1 THEN 0 ELSE DaysBeforeMonth(y, m - 1) + DaysInMonth(y, m - 1)

ToOrdinal(y, m, d) == DaysBeforeYear(y) + DaysBeforeMonth(y, m) + d

\* ordinal of 1970-01-01, the origin the instants count from
EpochOrdinal == ToOrdinal(1970, 1, 1)

\* pywintypes.Time(new_date): the instant of a datetime
WinTime(dt) ==
    (ToOrdinal(dt.Y, dt.m, dt.d) - EpochOrdinal) * 86400
        + dt.H * 3600 + dt.M * 60 + dt.S

\* a plausible slip: the selection flags ignored, every field overwritten
SelectTimesAll(new, existing, cc, ca, cm) == <<new[1], new[2], new[3]>>

\* a plausible slip: the selection flags of creation and modification swapped
SelectTimesSwapped(new, existing, cc, ca, cm) ==
    << IF cm THEN new[1] ELSE existing[1],
       IF ca THEN new[2] ELSE existing[2],
       IF cc THEN new[3] ELSE existing[3] >>

\* creation_time, access_time, modified_time: the new value for a selected
\* field, the value read in step 1 for the others
SelectTimes(new, existing, cc, ca, cm) ==
    << IF cc THEN new[1] ELSE existing[1],
       IF ca THEN new[2] ELSE existing[2],
       IF cm THEN new[3] ELSE existing[3] >>

----------------------------------------------------------------------------
(* The file system and the operator's inputs. *)

PathA == <<"a">>
PathB == <<"b">>
PathMissing == <<"x">>

\* the files that exist, with their timestamp triples
InitFs == (PathA :> <<1, 2, 3>>) @@ (PathB :> <<4, 5, 6>>)

\* os.path.isfile
IsFile(p) == p \in DOMAIN fs

Date1 == <<"2","0","2","1","-","0","6","-","1","5"," ","1","0",":","0","0",":","0","0">>
Date2 == <<"0","1","/","0","2","/","2","0","2","1">>
DateBad == <<"1","3","/","1","3","/","2","0","2","1">>

\* values the operator may give for --file and --source
FlagPaths == {None, Some(PathA), Some(PathB), Some(PathMissing), Some(<<>>)}
\* values the operator may give for --date
FlagDates == {None, Some(Date1), Some(Date2), Some(DateBad), Some(<<>>)}

\* lines the operator may type at a path prompt
PathLines == {<<>>, <<" ">>, PathA, <<" ", "b", " ">>, PathMissing}
\* lines the operator may type at a "1 or 2" prompt
ChoiceLines == {<<"1">>, <<" ", "2">>, <<"3">>, <<>>}
\* lines the operator may type at the date prompt
DateLines == {<<" ">> \o Date2, DateBad, <<>>}
\* lines the operator may type at a yes/no prompt
AnswerLines == {<<"Y", "e", "s">>, <<"n">>, <<" ", "y">>, <<>>}

Affirmative(line) == StartsWithY(Lower(line))

NoArgs == [file |-> None, date |-> None, source |-> None,
           creation |-> FALSE, access |-> FALSE, modified |-> FALSE]

----------------------------------------------------------------------------
(* The initial state: the process has started and main() is about to run.  *)

Init ==
    /\ pc = "main"
    /\ mode = "none"
    /\ args = NoArgs
    /\ target_file = <<>>
    /\ date_string = <<>>
    /\ new_date = None
    /\ source_file = None
    /\ change_creation = TRUE
    /\ change_access = TRUE
    /\ change_modified = TRUE
    /\ timestamp_types = <<>>
    /\ confirm = <<>>
    /\ success = FALSE
    /\ out = "none"
    /\ exit_code = -1
    /\ existing_times = <<>>
    /\ source_times = <<>>
    /\ new_times = <<>>
    /\ handles = {}
    /\ fs = InitFs
    /\ called = FALSE
    /\ opened = {}
    /\ pre_times = <<>>
    /\ env_wrote = {}
    /\ ops = 0

feVars == <<mode, args, target_file, date_string, new_date, source_file,
            change_creation, change_access, change_modified, confirm, ops>>
engineLocals == <<existing_times, source_times, new_times>>
ghostVars == <<called, opened, pre_times, env_wrote>>

\* the list timestamp_types built from the three flags
TimestampTypes(cc, ca, cm) ==
    (IF cc THEN <<"creation">> ELSE <<>>)
        \o (IF ca THEN <<"access">> ELSE <<>>)
        \o (IF cm THEN <<"modification">> ELSE <<>>)

----------------------------------------------------------------------------
(* The Timestamp Engine. *)

EnginePcs == {"cft_open_read", "cft_read", "cft_resolve", "gft_open", "gft_read",
              "cft_copy", "cft_open_write", "cft_write"}

\* a handle: the variable holding it, the file, the access asked for, and the
\* operation that opened it
Handle(name, path, access) ==
    [name |-> name, path |-> path, access |-> access, op |-> ops]

\* whether the sharing modes let CreateFile succeed: a read handle is opened
\* with FILE_SHARE_READ, the write handle with no sharing
CanShare(path, access) ==
    IF access = "w"
    THEN \A h \in handles : h.path # path
    ELSE \A h \in handles : h.path = path => h.access = "r"

\* the except clauses of change_file_timestamp: print and return False.  The
\* handle h, if one is open, was not closed by the code; whether its finalizer
\* has run by now is not decided by the program.
CftFails(h) ==
    /\ success' = FALSE
    /\ out' = "engine_error"
    /\ pc' = "cft_return"
    /\ \/ handles' = handles
       \/ h # {} /\ handles' = handles \ h

\* lines 71-79: h_existing = CreateFile(file_path, GENERIC_READ, FILE_SHARE_READ)
CftOpenExisting ==
    /\ pc = "cft_open_read"
    /\ \/ /\ IsFile(target_file) /\ CanShare(target_file, "r")
          /\ handles' = handles \cup {Handle("h_existing", target_file, "r")}
          /\ opened' = opened \cup {Handle("h_existing", target_file, "r")}
          /\ pc' = "cft_read"
          /\ UNCHANGED <<success, out>>
       \/ CftFails({}) /\ UNCHANGED opened
    /\ UNCHANGED <<feVars, engineLocals, timestamp_types, exit_code, fs,
                   called, pre_times, env_wrote>>

\* lines 81-82: existing_times = GetFileTime(h_existing); h_existing.close()
CftGetFileTime ==
    /\ pc = "cft_read"
    /\ \/ /\ existing_times' = fs[target_file]
          /\ handles' = handles \ {Handle("h_existing", target_file, "r")}
          /\ env_wrote' = {}
          /\ pc' = "cft_resolve"
          /\ UNCHANGED <<success, out>>
       \/ /\ CftFails({Handle("h_existing", target_file, "r")})
          /\ UNCHANGED <<existing_times, env_wrote>>
    /\ UNCHANGED <<feVars, source_times, new_times, timestamp_types, exit_code,
                   fs, called, opened, pre_times>>

\* lines 85 and 91-96: the branch on source_file, and the explicit instant.
\* pywintypes.Time(None) raises, which the except clause turns into False.
CftResolve ==
    /\ pc = "cft_resolve"
    /\ IF TruthyStr(source_file)
       THEN /\ pc' = "gft_open"
            /\ UNCHANGED <<new_times, success, out, handles>>
       ELSE IF new_date = None
            THEN CftFails({}) /\ UNCHANGED new_times
            ELSE LET win_time == WinTime(Get(new_date)) IN
                 /\ new_times' = SelectTimes(<<win_time, win_time, win_time>>,
                                     existing_times, change_creation,
                                     change_access, change_modified)
                 /\ pc' = "cft_open_write"
                 /\ UNCHANGED <<success, out, handles>>
    /\ UNCHANGED <<feVars, existing_times, source_times, timestamp_types,
                   exit_code, fs, ghostVars>>

\* lines 42-44: the except clause of get_file_timestamps prints and calls
\* sys.exit(1); SystemExit is no Exception, so change_file_timestamp's except
\* clauses let it pass and the process ends, the OS closing what is open.
GftFails ==
    /\ out' = "error_getting_timestamps"
    /\ exit_code' = 1
    /\ handles' = {}
    /\ pc' = "exited"

\* lines 28-36: handle = CreateFile(source_file, GENERIC_READ, FILE_SHARE_READ)
GftCreateFile ==
    /\ pc = "gft_open"
    /\ \/ /\ IsFile(Get(source_file)) /\ CanShare(Get(source_file), "r")
          /\ handles' = handles \cup {Handle("gft_handle", Get(source_file), "r")}
          /\ opened' = opened \cup {Handle("gft_handle", Get(source_file), "r")}
          /\ pc' = "gft_read"
          /\ UNCHANGED <<out, exit_code>>
       \/ GftFails /\ UNCHANGED opened
    /\ UNCHANGED <<feVars, engineLocals, timestamp_types, success, fs,
                   called, pre_times, env_wrote>>

\* lines 38-40: times = GetFileTime(handle); handle.close(); return times
GftGetFileTime ==
    /\ pc = "gft_read"
    /\ \/ /\ source_times' = fs[Get(source_file)]
          /\ handles' = handles \ {Handle("gft_handle", Get(source_file), "r")}
          /\ pc' = "cft_copy"
          /\ UNCHANGED <<out, exit_code>>
       \/ GftFails /\ UNCHANGED source_times
    /\ UNCHANGED <<feVars, existing_times, new_times, timestamp_types, success,
                   fs, ghostVars>>

\* lines 87-90: the source's fields for the selected, the existing for the others
CftCopy ==
    /\ pc = "cft_copy"
    /\ new_times' = SelectTimes(source_times, existing_times, change_creation,
                        change_access, change_modified)
    /\ pc' = "cft_open_write"
    /\ UNCHANGED <<feVars, existing_times, source_times, timestamp_types,
                   success, out, exit_code, handles, fs, ghostVars>>

\* lines 99-107: handle = CreateFile(file_path, GENERIC_WRITE, no sharing)
CftOpenWrite ==
    /\ pc = "cft_open_write"
    /\ \/ /\ IsFile(target_file) /\ CanShare(target_file, "w")
          /\ handles' = handles \cup {Handle("handle", target_file, "w")}
          /\ opened' = opened \cup {Handle("handle", target_file, "w")}
          /\ pc' = "cft_write"
          /\ UNCHANGED <<success, out>>
       \/ CftFails({}) /\ UNCHANGED opened
    /\ UNCHANGED <<feVars, engineLocals, timestamp_types, exit_code, fs,
                   called, pre_times, env_wrote>>

\* lines 110-112: SetFileTime(handle, ...) writes the three fields in one call;
\* handle.close(); return True
CftSetFileTime ==
    /\ pc = "cft_write"
    /\ \/ /\ fs' = [fs EXCEPT ![target_file] = new_times]
          /\ handles' = handles \ {Handle("handle", target_file, "w")}
          /\ success' = TRUE
          /\ pc' = "cft_return"
          /\ UNCHANGED out
       \/ CftFails({Handle("handle", target_file, "w")}) /\ UNCHANGED fs
    /\ UNCHANGED <<feVars, engineLocals, timestamp_types, exit_code, ghostVars>>

----------------------------------------------------------------------------
(* The Command Front-End: main, flag mode. *)

\* a plausible slip: the exit status not derived from the result
ExitAlwaysZero(ok) ==
    /\ exit_code' = 0
    /\ pc' = "exited"

\* line 373: sys.exit(0 if success else 1), main having returned ok
ExitWith(ok) ==
    /\ exit_code' = IF ok THEN 0 ELSE 1
    /\ pc' = "exited"

\* the call change_file_timestamp(file, date, source, cc, ca, cm) of lines
\* 343-350 and 260-267
CallEngine(file, date, source, cc, ca, cm) ==
    /\ target_file' = file
    /\ new_date' = date
    /\ source_file' = source
    /\ change_creation' = cc
    /\ change_access' = ca
    /\ change_modified' = cm
    /\ called' = TRUE
    /\ pre_times' = fs[file]
    /\ pc' = "cft_open_read"

\* parser.parse_args() ends the process with status 2 when --file is missing
\* or when not exactly one of --date / --source is given
ArgparseRejects(a) ==
    \/ a.file = None
    \/ a.date = None /\ a.source = None
    \/ a.date # None /\ a.source # None

\* line 286: no arguments, interactive mode
MainInteractive ==
    /\ pc = "main"
    /\ mode' = "interactive"
    /\ ops' = 1
    /\ pc' = "prompt_target"
    /\ UNCHANGED <<args, target_file, date_string, new_date, source_file,
                   change_creation, change_access, change_modified,
                   timestamp_types, confirm, success, out, exit_code,
                   engineLocals, handles, fs, ghostVars>>

\* lines 290-350: parse the arguments, validate them, select the fields and
\* call the Engine; every return False ends in sys.exit(1) at line 373
MainFlag ==
    /\ pc = "main"
    /\ \E f \in FlagPaths, d \in FlagDates, s \in FlagPaths,
          c \in BOOLEAN, a \in BOOLEAN, m \in BOOLEAN :
        LET ns == [file |-> f, date |-> d, source |-> s,
                   creation |-> c, access |-> a, modified |-> m]
            parsed == IF TruthyStr(d) THEN parse_date_string(Get(d)) ELSE None
            some == c \/ a \/ m
            stay == UNCHANGED <<target_file, new_date, source_file,
                                change_creation, change_access, change_modified,
                                called, pre_times>>
        IN
        /\ args' = ns
        /\ mode' = "flag"
        /\ ops' = 1
        /\ date_string' = IF TruthyStr(d) THEN Get(d) ELSE date_string
        /\ IF ArgparseRejects(ns)
           THEN /\ out' = "usage_error"
                /\ exit_code' = 2
                /\ pc' = "exited"
                /\ stay
           ELSE IF ~IsFile(Get(f))
           THEN out' = "file_not_exist" /\ ExitWith(FALSE) /\ stay
           ELSE IF TruthyStr(s) /\ ~IsFile(Get(s))
           THEN out' = "source_not_exist" /\ ExitWith(FALSE) /\ stay
           ELSE IF TruthyStr(d) /\ ~TruthyDate(parsed)
           THEN out' = "parse_error" /\ ExitWith(FALSE) /\ stay
           ELSE /\ CallEngine(Get(f), parsed, s,
                              IF some THEN c ELSE TRUE,
                              IF some THEN a ELSE TRUE,
                              IF some THEN m ELSE TRUE)
                /\ UNCHANGED <<out, exit_code>>
    /\ UNCHANGED <<timestamp_types, confirm, success, engineLocals, handles, fs,
                   opened, env_wrote>>

\* lines 352-368 and 373: report the fields changed, exit 0 or 1
MainReport ==
    /\ pc = "cft_return"
    /\ mode = "flag"
    /\ IF success
       THEN /\ timestamp_types' = TimestampTypes(change_creation, change_access,
                                                 change_modified)
            /\ out' = IF TruthyStr(args.source) THEN "copied" ELSE "changed"
       ELSE UNCHANGED <<timestamp_types, out>>
    /\ ExitWith(success)
    /\ UNCHANGED <<feVars, success, engineLocals, handles, fs, ghostVars>>

----------------------------------------------------------------------------
(* The Command Front-End: interactive_mode. *)

\* lines 162-172: the target-file prompt
PromptTarget ==
    /\ pc = "prompt_target"
    /\ \E line \in PathLines :
        LET t == Strip(line) IN
        IF t = <<>>
        THEN out' = "must_specify_file" /\ UNCHANGED <<pc, target_file>>
        ELSE IF ~IsFile(t)
        THEN out' = "file_not_exist" /\ UNCHANGED <<pc, target_file>>
        ELSE /\ target_file' = t
             /\ pc' = "prompt_source_choice"
             /\ UNCHANGED out
    /\ UNCHANGED <<mode, args, date_string, new_date, source_file,
                   change_creation, change_access, change_modified,
                   timestamp_types, confirm, success, exit_code, engineLocals,
                   handles, fs, ghostVars, ops>>

\* lines 179-187: "1. Set a specific date / 2. Copy from another file"
PromptSourceChoice ==
    /\ pc = "prompt_source_choice"
    /\ \E line \in ChoiceLines :
        LET choice == Strip(line) IN
        IF choice \notin {<<"1">>, <<"2">>}
        THEN out' = "enter_1_or_2" /\ UNCHANGED <<pc, new_date, source_file>>
        ELSE /\ new_date' = None
             /\ source_file' = None
             /\ pc' = IF choice = <<"1">> THEN "prompt_date" ELSE "prompt_source"
             /\ UNCHANGED out
    /\ UNCHANGED <<mode, args, target_file, date_string, change_creation,
                   change_access, change_modified, timestamp_types, confirm,
                   success, exit_code, engineLocals, handles, fs, ghostVars, ops>>

\* lines 192-199: the date prompt, repeated until the date parses
PromptDate ==
    /\ pc = "prompt_date"
    /\ \E line \in DateLines :
        LET parsed == parse_date_string(Strip(line)) IN
        /\ date_string' = Strip(line)
        /\ new_date' = parsed
        /\ IF ~TruthyDate(parsed)
           THEN out' = "parse_error" /\ UNCHANGED pc
           ELSE pc' = "prompt_ts_choice" /\ UNCHANGED out
    /\ UNCHANGED <<mode, args, target_file, source_file, change_creation,
                   change_access, change_modified, timestamp_types, confirm,
                   success, exit_code, engineLocals, handles, fs, ghostVars, ops>>

\* lines 202-212: the source-file prompt
PromptSource ==
    /\ pc = "prompt_source"
    /\ \E line \in PathLines :
        LET t == Strip(line) IN
        /\ source_file' = Some(t)
        /\ IF t = <<>>
           THEN out' = "must_specify_source" /\ UNCHANGED pc
           ELSE IF ~IsFile(t)
           THEN out' = "source_not_exist" /\ UNCHANGED pc
           ELSE pc' = "prompt_ts_choice" /\ UNCHANGED out
    /\ UNCHANGED <<mode, args, target_file, date_string, new_date,
                   change_creation, change_access, change_modified,
                   timestamp_types, confirm, success, exit_code, engineLocals,
                   handles, fs, ghostVars, ops>>

\* lines 219-228: "1. All / 2. Only specific ones"
PromptTsChoice ==
    /\ pc = "prompt_ts_choice"
    /\ \E line \in ChoiceLines :
        LET timestamp_choice == Strip(line) IN
        IF timestamp_choice \notin {<<"1">>, <<"2">>}
        THEN /\ out' = "enter_1_or_2"
             /\ UNCHANGED <<pc, change_creation, change_access, change_modified>>
        ELSE /\ change_creation' = TRUE
             /\ change_access' = TRUE
             /\ change_modified' = TRUE
             /\ pc' = IF timestamp_choice = <<"2">> THEN "prompt_fields"
                                                    ELSE "confirm"
             /\ UNCHANGED out
    /\ UNCHANGED <<mode, args, target_file, date_string, new_date, source_file,
                   timestamp_types, confirm, success, exit_code, engineLocals,
                   handles, fs, ghostVars, ops>>

\* lines 230-233: the three per-field questions
PromptFields ==
    /\ pc = "prompt_fields"
    /\ \E c \in AnswerLines, a \in AnswerLines, m \in AnswerLines :
        /\ change_creation' = Affirmative(c)
        /\ change_access' = Affirmative(a)
        /\ change_modified' = Affirmative(m)
    /\ pc' = "confirm"
    /\ UNCHANGED <<mode, args, target_file, date_string, new_date, source_file,
                   timestamp_types, confirm, success, out, exit_code,
                   engineLocals, handles, fs, ghostVars, ops>>

\* a plausible slip: a declined confirmation falling through to the call
ConfirmIgnoresAnswer ==
    /\ pc = "confirm"
    /\ timestamp_types' = TimestampTypes(change_creation, change_access,
                                         change_modified)
    /\ \E line \in AnswerLines :
        /\ confirm' = Lower(line)
        /\ CallEngine(target_file, new_date, source_file, change_creation,
                      change_access, change_modified)
        /\ out' = "summary"
        /\ UNCHANGED exit_code
    /\ UNCHANGED <<mode, args, date_string, success, engineLocals, handles, fs,
                   opened, env_wrote, ops>>

\* lines 236-267: the summary, the confirmation prompt, and either the
\* cancellation (return False, so line 373 exits with 1) or the Engine call
Confirm ==
    /\ pc = "confirm"
    /\ timestamp_types' = TimestampTypes(change_creation, change_access,
                                         change_modified)
    /\ \E line \in AnswerLines :
        /\ confirm' = Lower(line)
        /\ IF ~StartsWithY(Lower(line))
           THEN /\ out' = "cancelled"
                /\ ExitWith(FALSE)
                /\ UNCHANGED <<target_file, new_date, source_file,
                               change_creation, change_access, change_modified,
                               called, pre_times>>
           ELSE /\ CallEngine(target_file, new_date, source_file,
                              change_creation, change_access, change_modified)
                /\ out' = "summary"
                /\ UNCHANGED exit_code
    /\ UNCHANGED <<mode, args, date_string, success, engineLocals, handles, fs,
                   opened, env_wrote, ops>>

\* lines 269-273: the success message
InteractiveReport ==
    /\ pc = "cft_return"
    /\ mode = "interactive"
    /\ out' = IF ~success THEN out
              ELSE IF TruthyDate(new_date) THEN "changed" ELSE "copied"
    /\ pc' = "prompt_continue"
    \* the Engine's frame is gone
    /\ existing_times' = <<>>
    /\ source_times' = <<>>
    /\ new_times' = <<>>
    /\ UNCHANGED <<feVars, timestamp_types, success, exit_code, handles, fs,
                   ghostVars>>

\* lines 276-280: "Do you want to perform another operation?"; an affirmative
\* answer runs interactive_mode again, anything else returns success
PromptContinue ==
    /\ pc = "prompt_continue"
    /\ \E line \in AnswerLines :
        IF Affirmative(line)
        THEN /\ ops < MaxOps
             /\ ops' = ops + 1
             /\ pc' = "prompt_target"
             \* the new call's locals are fresh
             /\ target_file' = <<>>
             /\ date_string' = <<>>
             /\ new_date' = None
             /\ source_file' = None
             /\ change_creation' = TRUE
             /\ change_access' = TRUE
             /\ change_modified' = TRUE
             /\ timestamp_types' = <<>>
             /\ confirm' = <<>>
             /\ success' = FALSE
             /\ called' = FALSE
             /\ opened' = {}
             /\ pre_times' = <<>>
             /\ UNCHANGED exit_code
        ELSE /\ ExitWith(success)
             /\ UNCHANGED <<ops, target_file, date_string, new_date, source_file,
                            change_creation, change_access, change_modified,
                            timestamp_types, confirm, success, called, opened,
                            pre_times>>
    /\ UNCHANGED <<mode, args, out, engineLocals, handles, fs, env_wrote>>

----------------------------------------------------------------------------
(* Another process on the same machine: it may set a timestamp field of a   *)
(* file whenever this process holds no handle on it. *)

\* the instants the other process may write
EnvTimes == {99}

EnvWrites ==
    /\ pc # "exited"
    /\ Cardinality(env_wrote) < MaxEnvWrites
    /\ \E p \in DOMAIN fs, i \in 1..3 :
        /\ \A h \in handles : h.path # p
        /\ \E t \in EnvTimes : fs' = [fs EXCEPT ![p][i] = t]
        /\ env_wrote' = env_wrote \cup {<<p, i>>}
    /\ UNCHANGED <<pc, feVars, timestamp_types, success, out, exit_code,
                   engineLocals, handles, called, opened, pre_times>>

----------------------------------------------------------------------------
(* The specifications. *)

Engine ==
    \/ CftOpenExisting \/ CftGetFileTime \/ CftResolve
    \/ GftCreateFile \/ GftGetFileTime \/ CftCopy
    \/ CftOpenWrite \/ CftSetFileTime

FrontEnd ==
    \/ MainInteractive \/ MainFlag \/ MainReport
    \/ PromptTarget \/ PromptSourceChoice \/ PromptDate \/ PromptSource
    \/ PromptTsChoice \/ PromptFields \/ Confirm
    \/ InteractiveReport \/ PromptContinue

Next == Engine \/ FrontEnd

\* the program alone
Spec == Init /\ [][Next]_vars

\* one flag-mode run of the program, and another process touching the same
\* files while it runs
NextRace == Engine \/ MainFlag \/ MainReport \/ EnvWrites

SpecRace == Init /\ [][NextRace]_vars

----------------------------------------------------------------------------
(* parse_date_string on its own: the operator's text is drawn from the date *)
(* strings below and parsed in one step. *)

NumStrs == { <<"1">>, <<"0", "1">>, <<"0", "2">>, <<"1", "2">>, <<"1", "3">>,
             <<"2", "9">>, <<"3", "0">>, <<"3", "1">>, <<"3", "2">>, <<"0">> }
YearStrs == { <<"2", "0", "2", "0">>, <<"2", "0", "2", "1">> }
SepStrs == { <<"-">>, <<"/">> }

Midnight == <<" ", "0", "0", ":", "0", "0", ":", "0", "0">>

\* time parts: the text, whether it is a time of day, and the time it denotes
TimeParts ==
    { [text |-> <<>>, ok |-> TRUE, H |-> 0, M |-> 0, S |-> 0],
      [text |-> Midnight, ok |-> TRUE, H |-> 0, M |-> 0, S |-> 0],
      [text |-> <<" ", "1", "0", ":", "3", "0">>,
       ok |-> TRUE, H |-> 10, M |-> 30, S |-> 0],
      [text |-> <<" ", " ", "2", "3", ":", "5", "9", ":", "5", "9">>,
       ok |-> TRUE, H |-> 23, M |-> 59, S |-> 59],
      [text |-> <<" ", "2", "4", ":", "0", "0">>,
       ok |-> FALSE, H |-> 0, M |-> 0, S |-> 0],
      [text |-> <<" ", "1", "0", ":", "3", "0", ":", "6", "0">>,
       ok |-> FALSE, H |-> 0, M |-> 0, S |-> 0] }

DateText(x, sep, y, z, t) == x \o sep \o y \o sep \o z \o t.text

ParseInputs ==
    { DateText(x, sep, y, z, t) :
        x \in NumStrs \cup YearStrs, sep \in SepStrs, y \in NumStrs,
        z \in NumStrs \cup YearStrs, t \in TimeParts }

InitParse ==
    /\ pc = "parse"
    /\ date_string \in ParseInputs
    /\ mode = "none"
    /\ args = NoArgs
    /\ target_file = <<>>
    /\ new_date = None
    /\ source_file = None
    /\ change_creation = TRUE
    /\ change_access = TRUE
    /\ change_modified = TRUE
    /\ timestamp_types = <<>>
    /\ confirm = <<>>
    /\ success = FALSE
    /\ out = "none"
    /\ exit_code = -1
    /\ existing_times = <<>>
    /\ source_times = <<>>
    /\ new_times = <<>>
    /\ handles = {}
    /\ fs = InitFs
    /\ called = FALSE
    /\ opened = {}
    /\ pre_times = <<>>
    /\ env_wrote = {}
    /\ ops = 0

\* new_date = parse_date_string(date_string)
ParseDate ==
    /\ pc = "parse"
    /\ new_date' = parse_date_string(date_string)
    /\ pc' = "parsed"
    /\ UNCHANGED <<mode, args, target_file, date_string, source_file,
                   change_creation, change_access, change_modified,
                   timestamp_types, confirm, success, out, exit_code,
                   engineLocals, handles, fs, ghostVars, ops>>

SpecParse == InitParse /\ [][ParseDate]_vars

----------------------------------------------------------------------------
(* The claims. *)

\* the request's selection and the value each selected field is to receive
Selected == <<change_creation, change_access, change_modified>>

\* the source's triple at the time of the call
SourceAtCall ==
    IF Get(source_file) = target_file THEN pre_times ELSE fs[Get(source_file)]

NewValue(i) ==
    IF TruthyStr(source_file) THEN SourceAtCall[i] ELSE WinTime(Get(new_date))

HasTimeSource == TruthyStr(source_file) \/ new_date # None

JustWritten == pc = "cft_return" /\ success

\* C1: after a successful change_file_timestamp with a non-empty selection,
\* every selected field equals the explicit instant (or the source's field)
\* and every other field equals the value the target had before the call; a
\* full copy leaves the target's triple equal to the source's.
C1_SelectedFieldsWritten ==
    (JustWritten /\ HasTimeSource /\ (\E i \in 1..3 : Selected[i])) =>
        /\ \A i \in 1..3 :
              fs[target_file][i] = IF Selected[i] THEN NewValue(i) ELSE pre_times[i]
        /\ (TruthyStr(source_file) /\ \A i \in 1..3 : Selected[i]) =>
              fs[target_file] = SourceAtCall

\* C1: a partial copy has happened: creation taken from another file, access
\* and modification kept
C1_Witness ==
    /\ JustWritten
    /\ TruthyStr(source_file) /\ Get(source_file) # target_file
    /\ Selected = <<TRUE, FALSE, FALSE>>
    /\ fs[target_file][1] = fs[Get(source_file)][1]
    /\ fs[target_file][1] # pre_times[1]
    /\ fs[target_file][2] = pre_times[2]
    /\ fs[target_file][3] = pre_times[3]

\* the selection mask the operator gave: the three flags of flag mode, the
\* three answers of interactive mode
OperatorMask ==
    IF mode = "flag" THEN <<args.creation, args.access, args.modified>>
    ELSE Selected

AllTypes == <<"creation", "access", "modification">>

\* C2: a request whose mask has no field set overwrites all three fields with
\* the new value, and lists all three, in flag mode and in interactive mode
C2_EmptyMaskSelectsAll ==
    /\ (JustWritten /\ HasTimeSource /\ OperatorMask = <<FALSE, FALSE, FALSE>>) =>
          /\ \A i \in 1..3 : fs[target_file][i] = NewValue(i)
          /\ mode = "interactive" => timestamp_types = AllTypes
    /\ (pc = "exited" /\ mode = "flag" /\ success
            /\ OperatorMask = <<FALSE, FALSE, FALSE>>) =>
          timestamp_types = AllTypes

\* C3, as claimed: in flag mode the exit code is 0 exactly when the Engine's
\* write succeeded and 1 in every other case
C3_ExitZeroOrOne ==
    (pc = "exited" /\ mode = "flag") => exit_code = IF success THEN 0 ELSE 1

\* C3, amended: in flag mode the exit code is 0 exactly when the Engine's write
\* succeeded, 2 when argparse rejects the command line (--file missing, both
\* or neither of --date / --source), and 1 in every other case
C3_ExitCodes ==
    (pc = "exited" /\ mode = "flag") =>
        /\ exit_code = IF success THEN 0
                       ELSE IF ArgparseRejects(args) THEN 2 ELSE 1
        /\ success => called /\ ~ArgparseRejects(args)
        /\ ~called => out \in {"usage_error", "file_not_exist",
                               "source_not_exist", "parse_error"}

\* C3: one run of each kind has ended: usage error, validation failure, Engine
\* failure and success are all reachable; the witness is the usage error
C3_Witness ==
    /\ pc = "exited" /\ mode = "flag"
    /\ args.file = None
    /\ exit_code = 2

\* C4: in interactive mode an Engine failure after confirmation never ends the
\* process: control comes back to the "perform another operation?" prompt
C4_EngineFailureKeepsRunning ==
    [][(mode = "interactive" /\ pc \in EnginePcs \cup {"cft_return"}) =>
          /\ exit_code' = -1
          /\ pc' \in EnginePcs \cup {"cft_return", "prompt_continue"}]_vars

C6_BadDateNeverReachesEngine ==
    (/\ mode = "flag"
     /\ ~ArgparseRejects(args)
     /\ IsFile(Get(args.file))
     /\ args.date # None
     /\ parse_date_string(Get(args.date)) = None) =>
        /\ ~called
        /\ opened = {}
        /\ pc = "exited" => out = "parse_error" /\ exit_code = 1

\* C7: every call of change_file_timestamp has exactly one time source: a
\* parsed instant and no source file, or an existing source file and no instant
C7_ExactlyOneTimeSource ==
    called =>
        \/ new_date # None /\ source_file = None
        \/ new_date = None /\ source_file # None /\ IsFile(Get(source_file))

\* C8: the Engine has closed every handle it opened when it returns, on every
\* path, and never holds more than one handle
C8_HandlesClosed ==
    /\ pc \notin EnginePcs => handles = {}
    /\ Cardinality(handles) <= 1

\* the nine formats in the order the specification lists them
ListedFormats ==
    << FmtYmd \o FmtHMS, FmtYmd \o FmtHM, FmtYmd,
       FmtDmy \o FmtHMS, FmtDmy \o FmtHM, FmtDmy,
       FmtMdy \o FmtHMS, FmtMdy \o FmtHM, FmtMdy >>

\* the formats of the list that accept s
Accepting(s) == {i \in 1..Len(ListedFormats) : StrpTime(s, ListedFormats[i]) # None}

Least(S) == CHOOSE i \in S : \A j \in S : i <= j

ValidDate(y, m, d) == y >= 1 /\ m \in 1..12 /\ d >= 1 /\ d <= DaysInMonth(y, m)

DateTime(y, m, d, t) ==
    [Y |-> y, m |-> m, d |-> d, H |-> t.H, M |-> t.M, S |-> t.S]

\* what the claim says of the text a/b/YYYY followed by the time part t
SlashReading(a, b, y, t) ==
    IF ~t.ok THEN None
    ELSE IF ValidDate(NumVal(y), NumVal(b), NumVal(a))
         THEN Some(DateTime(NumVal(y), NumVal(b), NumVal(a), t))
    ELSE IF ValidDate(NumVal(y), NumVal(a), NumVal(b))
         THEN Some(DateTime(NumVal(y), NumVal(a), NumVal(b), t))
    ELSE None

DateOnly == [text |-> <<>>, ok |-> TRUE, H |-> 0, M |-> 0, S |-> 0]

\* C9: parse_date_string returns the result of the first listed format that
\* accepts the text, or None; a/b/YYYY is read day/month when that is a
\* calendar date and month/day only otherwise; a date without a time part is
\* that date at 00:00:00
C9_FirstListedFormatWins ==
    pc = "parsed" =>
        /\ new_date = IF Accepting(date_string) = {} THEN None
                      ELSE StrpTime(date_string,
                                    ListedFormats[Least(Accepting(date_string))])
        /\ \A a \in NumStrs, b \in NumStrs, y \in YearStrs, t \in TimeParts :
              date_string = DateText(a, <<"/">>, b, y, t) =>
                  new_date = SlashReading(a, b, y, t)
        /\ \A x \in NumStrs \cup YearStrs, sep \in SepStrs, y \in NumStrs,
              z \in NumStrs \cup YearStrs :
              date_string = DateText(x, sep, y, z, DateOnly) =>
                  new_date = parse_date_string(date_string \o Midnight)

\* C9: "01/02/2021", which both readings accept, was read as 1 February
C9_Witness ==
    /\ pc = "parsed"
    /\ date_string = <<"0", "1", "/", "0", "2", "/", "2", "0", "2", "1">>
    /\ new_date = Some([Y |-> 2021, m |-> 2, d |-> 1, H |-> 0, M |-> 0, S |-> 0])

\* C10: nothing is held open between the Engine's read and its write, and the
\* write puts every non-selected field back to the value read in step 1,
\* whatever another process wrote there meanwhile, while every selected field
\* receives the new value
C10_WriteRestoresReadValues ==
    /\ [](pc \in {"cft_resolve", "cft_copy", "cft_open_write"} => handles = {})
    /\ [][(pc = "cft_write" /\ pc' = "cft_return" /\ success') =>
             \A i \in 1..3 :
                fs'[target_file][i] =
                    IF Selected[i]
                    THEN IF TruthyStr(source_file) THEN source_times[i]
                         ELSE WinTime(Get(new_date))
                    ELSE existing_times[i]]_vars

\* C10: another process wrote a non-selected field after the read, and the
\* Engine's write has put the old value back
C10_Witness ==
    /\ JustWritten
    /\ \E i \in 1..3 :
          /\ ~Selected[i]
          /\ <<target_file, i>> \in env_wrote
          /\ existing_times[i] \notin EnvTimes
          /\ fs[target_file][i] = existing_times[i]
    /\ \E i \in 1..3 : Selected[i] /\ fs[target_file][i] = NewValue(i)

====
